---- MODULE Spec2Model ----
(***************************************************************************)
(* Dialect drivers of mayfly-go (SQL Server and MySQL): metadata           *)
(* introspection, DDL synthesis, batch insert and table copy, as a state   *)
(* machine over one introspected table.                                    *)
(*                                                                         *)
(* Text is modelled as a sequence of tokens: an identifier, a keyword or a *)
(* punctuation mark is one token, so that joining, splitting and prefix    *)
(* tests are computed and not assumed.                                     *)
(***************************************************************************)
EXTENDS Integers, Sequences, FiniteSets, TLC

\* ------------------------------------------------------------------ bounds
MaxCols == 2
MaxIdxCols == 2
MaxRows == 2
MaxCopies == 2
MaxChunks == 3

\* --------------------------------------------------------------- constants
NoErr == ""
QueryError == "QueryError"
ExecError == "ExecError"
TableNotFound == "TableNotFound"
Panic == "panic"

DuplicateStrategyNone == "None"
DuplicateStrategyIgnore == "Ignore"
DuplicateStrategyUpdate == "Update"

Schema == "dbo"
TableName == "t"
\* declaration order of the column names of the introspected table
ColNameSeq == <<"a", "b", "c", "d">>
PKPrefix == "PK__"
PKIndexName == <<"PK__", "t">>
IxIndexName == <<"ix_", "t">>

VARIABLES
    columns,      \* column rows of the table, as the column metadata query returns them
    indexRows,    \* raw index rows of the table, ordered by (index name, sequence)
    constraints,  \* names of the constraints added to the table by executed statements
    op,           \* the last call: operation, dialect and arguments
    ret,          \* value returned by the last call
    err,          \* error returned by the last call (NoErr, or Panic for a crash)
    stmts,        \* statements the last call executed on the transaction, with outcome
    queries,      \* metadata queries the last call issued, with outcome
    created,      \* tables created by CopyTable
    tasks,        \* background data-copy tasks started by CopyTable
    clock         \* time.Now() of CopyTable, in seconds

vars == <<columns, indexRows, constraints, op, ret, err, stmts, queries, created, tasks, clock>>

\* ------------------------------------------------------------ text helpers
\* strings.Join over token sequences: parts is a sequence of texts
RECURSIVE Join(_, _)
Join(parts, sep) ==
    IF Len(parts) = 0 THEN <<>>
    ELSE IF Len(parts) = 1 THEN parts[1]
    ELSE parts[1] \o <<sep>> \o Join(Tail(parts), sep)

\* strings.Split over a token sequence: always at least one part
RECURSIVE SplitFrom(_, _, _)
SplitFrom(s, sep, cur) ==
    IF Len(s) = 0 THEN <<cur>>
    ELSE IF s[1] = sep THEN <<cur>> \o SplitFrom(Tail(s), sep, <<>>)
    ELSE SplitFrom(Tail(s), sep, Append(cur, s[1]))

Split(s, sep) == SplitFrom(s, sep, <<>>)

\* strings.HasPrefix(in, "PK__")
HasPrefix(s, prefix) == Len(s) > 0 /\ s[1] = prefix

\* collx.ArrayContains
ArrayContains(arr, x) == \E i \in 1..Len(arr) : arr[i] = x

\* strings.Repeat over token sequences
RECURSIVE Repeat(_, _)
Repeat(s, n) == IF n = 0 THEN <<>> ELSE s \o Repeat(s, n - 1)

\* strings.TrimSuffix
TrimSuffix(s, tok) ==
    IF Len(s) > 0 /\ s[Len(s)] = tok THEN SubSeq(s, 1, Len(s) - 1) ELSE s

\* the rows flattened column by column
FlattenColumnMajor(rows) ==
    IF Len(rows) = 0 THEN <<>>
    ELSE LET r == Len(rows)
             c == Len(rows[1])
         IN [k \in 1..(r * c) |-> rows[((k - 1) % r) + 1][((k - 1) \div r) + 1]]

\* args = append(args, v...) for every row v
RECURSIVE Flatten(_)
Flatten(rows) == IF Len(rows) = 0 THEN <<>> ELSE rows[1] \o Flatten(Tail(rows))

Range(s) == {s[i] : i \in 1..Len(s)}

\* ---------------------------------------------------------- table universe
ColFlags ==
    {f \in [Nullable : {"YES", "NO"}, IsPrimaryKey : BOOLEAN, IsIdentity : BOOLEAN] :
        f.IsPrimaryKey => f.Nullable = "NO"}

MkColumn(i, f) ==
    [ColumnName |-> ColNameSeq[i], ColumnType |-> "int", Nullable |-> f.Nullable,
     IsPrimaryKey |-> f.IsPrimaryKey, IsIdentity |-> f.IsIdentity,
     ColumnDefault |-> <<>>, ColumnComment |-> <<>>]

\* a table has at most one identity column, and a primary-key column is NOT NULL
ColumnLists ==
    UNION {{[i \in 1..n |-> MkColumn(i, fs[i])] : fs \in
              {g \in [1..n -> ColFlags] :
                  Cardinality({i \in 1..n : g[i].IsIdentity}) <= 1}} : n \in 0..MaxCols}

\* the names of the columns satisfying a flag, in declaration order
RECURSIVE NamesWhere(_, _)
NamesWhere(cols, flag) ==
    IF Len(cols) = 0 THEN <<>>
    ELSE (IF cols[1][flag] THEN <<cols[1].ColumnName>> ELSE <<>>)
         \o NamesWhere(Tail(cols), flag)

\* the primary-key columns of a table, in declaration order
PkNames(cols) == NamesWhere(cols, "IsPrimaryKey")

\* sequences of distinct column names, 1..MaxIdxCols long
IndexColumnLists(cols) ==
    UNION {{s \in [1..n -> {cols[i].ColumnName : i \in 1..Len(cols)}] :
              \A i, j \in 1..n : i # j => s[i] # s[j]} : n \in 1..MaxIdxCols}

\* the raw rows of one index, one per (index, column), in sequence order
IndexRowsOf(name, cs, unique) ==
    [k \in 1..Len(cs) |->
        [IndexName |-> name, ColumnName |-> <<cs[k]>>, IndexType |-> "NONCLUSTERED",
         IndexComment |-> <<>>, IsUnique |-> unique, SeqInIndex |-> k]]

\* the primary key is backed by the index PK__t; at most one secondary index ix_t
IndexRowLists(cols) ==
    LET pk == IF PkNames(cols) = <<>> THEN <<>>
              ELSE IndexRowsOf(PKIndexName, PkNames(cols), TRUE)
    IN {pk} \cup {pk \o IndexRowsOf(IxIndexName, cs, u) :
                     cs \in IndexColumnLists(cols), u \in BOOLEAN}

\* ----------------------------------------------------------- introspection
Query(key, ok) == [key |-> key, ok |-> ok]

\* MssqlDialect.GetColumns: the column rows, or the query's error
MssqlGetColumns(ok) ==
    [cols |-> IF ok THEN columns ELSE <<>>,
     err |-> IF ok THEN NoErr ELSE QueryError,
     queries |-> <<Query("MSSQL_COLUMN_MA", ok)>>]

\* MysqlMetaData.GetColumns: Nullable becomes a boolean (nullable == "YES")
MysqlGetColumns(ok) ==
    [cols |-> IF ok
              THEN [i \in 1..Len(columns) |->
                      [ColumnName |-> columns[i].ColumnName,
                       DataType |-> columns[i].ColumnType,
                       Nullable |-> (columns[i].Nullable = "YES"),
                       IsPrimaryKey |-> columns[i].IsPrimaryKey,
                       IsIdentity |-> columns[i].IsIdentity,
                       ColumnDefault |-> columns[i].ColumnDefault,
                       ColumnComment |-> columns[i].ColumnComment]]
              ELSE <<>>,
     err |-> IF ok THEN NoErr ELSE QueryError,
     queries |-> <<Query("MYSQL_COLUMN_MA", ok)>>]

\* the loop of GetPrimaryKey: the first column flagged primary key, else ""
RECURSIVE FirstPrimaryKeyMutant(_)
FirstPrimaryKeyMutant(cols) ==
    IF Len(cols) = 0 THEN ""
    ELSE IF cols[Len(cols)].IsPrimaryKey THEN cols[Len(cols)].ColumnName
    ELSE FirstPrimaryKeyMutant(SubSeq(cols, 1, Len(cols) - 1))

RECURSIVE FirstPrimaryKey(_)
FirstPrimaryKey(cols) ==
    IF Len(cols) = 0 THEN ""
    ELSE IF cols[1].IsPrimaryKey THEN cols[1].ColumnName
    ELSE FirstPrimaryKey(Tail(cols))

\* GetPrimaryKey of both dialects, over the result of the dialect's GetColumns
GetPrimaryKey(gc) ==
    IF gc.err # NoErr THEN [ret |-> "", err |-> gc.err]
    ELSE IF Len(gc.cols) = 0 THEN [ret |-> "", err |-> TableNotFound]
    ELSE IF FirstPrimaryKey(gc.cols) # "" THEN [ret |-> FirstPrimaryKey(gc.cols), err |-> NoErr]
    ELSE [ret |-> gc.cols[1].ColumnName, err |-> NoErr]

\* the grouping loop of index introspection: rows sharing the current key are
\* comma-joined onto the last entry; result[-1] on an empty result is a crash
RECURSIVE FoldIndex(_, _, _)
FoldIndex(indexs, key, result) ==
    IF Len(indexs) = 0 THEN [result |-> result, err |-> NoErr]
    ELSE LET v == indexs[1] IN
         IF key = v.IndexName
         THEN IF Len(result) = 0 THEN [result |-> <<>>, err |-> Panic]
              ELSE LET i == Len(result) IN
                   FoldIndex(Tail(indexs), key,
                       [result EXCEPT ![i].ColumnName = @ \o <<",">> \o v.ColumnName])
         ELSE FoldIndex(Tail(indexs), v.IndexName, Append(result, v))

\* MssqlDialect.getTableIndexWithPK: folds, then returns the unfolded rows
MssqlGetTableIndexWithPK(ok) ==
    IF ~ok THEN [ret |-> <<>>, err |-> QueryError, queries |-> <<Query("MSSQL_INDEX_INFO", ok)>>]
    ELSE LET indexs == indexRows
             folded == FoldIndex(indexs, <<>>, <<>>) IN
         IF folded.err # NoErr
         THEN [ret |-> <<>>, err |-> folded.err, queries |-> <<Query("MSSQL_INDEX_INFO", ok)>>]
         ELSE [ret |-> indexs, err |-> NoErr, queries |-> <<Query("MSSQL_INDEX_INFO", ok)>>]

\* the filter loop of MssqlDialect.GetTableIndex: primary-key indexes are
\* skipped and nothing is appended for the others
RECURSIVE FilterPK(_, _)
FilterPK(indexs, result) ==
    IF Len(indexs) = 0 THEN result
    ELSE IF HasPrefix(indexs[1].IndexName, PKPrefix) THEN FilterPK(Tail(indexs), result)
    ELSE FilterPK(Tail(indexs), result)

\* MssqlDialect.GetTableIndex: the error of getTableIndexWithPK is dropped
MssqlGetTableIndex(ok) ==
    LET r == MssqlGetTableIndexWithPK(ok) IN
    IF r.err = Panic THEN [ret |-> <<>>, err |-> Panic, queries |-> r.queries]
    ELSE [ret |-> FilterPK(r.ret, <<>>), err |-> NoErr, queries |-> r.queries]

\* MysqlMetaData.GetTableIndex: folds and returns the folded entries
MysqlGetTableIndex(ok) ==
    IF ~ok THEN [ret |-> <<>>, err |-> QueryError, queries |-> <<Query("MYSQL_INDEX_INFO", ok)>>]
    ELSE LET folded == FoldIndex(indexRows, <<>>, <<>>) IN
         [ret |-> folded.result, err |-> folded.err, queries |-> <<Query("MYSQL_INDEX_INFO", ok)>>]

\* ------------------------------------------------------------ batch insert
\* dbType.QuoteIdentifier of SQL Server
QuoteIdentifier(name) == <<"[">> \o name \o <<"]">>

QuotedNameSeq == <<"[a]", "[b]", "[c]", "[d]">>

\* a RemoveQuote that leaves the brackets of SQL Server in place
RemoveQuoteKeepsBrackets(name) == name

\* dbType.RemoveQuote: a bracketed name loses its brackets
RemoveQuote(name) ==
    IF \E i \in 1..Len(QuotedNameSeq) : QuotedNameSeq[i] = name
    THEN ColNameSeq[CHOOSE i \in 1..Len(QuotedNameSeq) : QuotedNameSeq[i] = name]
    ELSE name

\* strings.ReplaceAll of one token
ReplaceAll(s, old, new) == [i \in 1..Len(s) |-> IF s[i] = old THEN new ELSE s[i]]

\* a statement handed to TxExec / Exec, its bound arguments and its outcome
Stmt(text, args, ok) == [text |-> text, args |-> args, ok |-> ok]

\* the loop collecting the columns of the unique indexes, without repeats
RECURSIVE AddUnique(_, _)
AddUnique(cols, uniqueColumns) ==
    IF Len(cols) = 0 THEN uniqueColumns
    ELSE AddUnique(Tail(cols),
             IF ArrayContains(uniqueColumns, cols[1]) THEN uniqueColumns
             ELSE Append(uniqueColumns, cols[1]))

RECURSIVE UniqueColumns(_, _)
UniqueColumns(indexs, uniqueColumns) ==
    IF Len(indexs) = 0 THEN uniqueColumns
    ELSE UniqueColumns(Tail(indexs),
             IF indexs[1].IsUnique
             THEN AddUnique(Split(indexs[1].ColumnName, ","), uniqueColumns)
             ELSE uniqueColumns)

\* "ALTER TABLE s.t ADD CONSTRAINT uniqueRows UNIQUE (..) WITH (IGNORE_DUP_KEY = {sign})"
IgnoreDupSql(uniqueColumns) ==
    <<"ALTER TABLE", Schema, ".", TableName, "ADD CONSTRAINT", "uniqueRows", "UNIQUE", "(">>
    \o Join(uniqueColumns, ",")
    \o <<")", "WITH", "(", "IGNORE_DUP_KEY", "=", "{sign}", ")">>

\* the constraint a statement adds to the table when it succeeds, or ""
AddedConstraint(text) ==
    IF \E i \in 1..Len(text) - 1 : text[i] = "ADD CONSTRAINT"
    THEN text[1 + CHOOSE i \in 1..Len(text) - 1 : text[i] = "ADD CONSTRAINT"]
    ELSE ""

\* the constraint a statement drops from the table when it succeeds, or ""
DroppedConstraint(text) ==
    IF \E i \in 1..Len(text) - 1 : text[i] = "DROP CONSTRAINT"
    THEN text[1 + CHOOSE i \in 1..Len(text) - 1 : text[i] = "DROP CONSTRAINT"]
    ELSE ""

\* TxExec of one statement against the table's constraints: a constraint
\* that exists cannot be added again, one that is absent cannot be dropped
TxExec(cons, text, args, wantOk) ==
    LET add == AddedConstraint(text)
        drop == DroppedConstraint(text)
        ok == /\ wantOk
              /\ add # "" => add \notin cons
              /\ drop # "" => drop \in cons
    IN [stmt |-> Stmt(text, args, ok),
        cons |-> IF ok /\ add # "" THEN cons \cup {add}
                 ELSE IF ok /\ drop # "" THEN cons \ {drop}
                 ELSE cons]

\* "(?,?),(?,?)": one group per row, one placeholder per column
Placeholders(ncols, nrows) ==
    LET placeholder == <<"(">> \o TrimSuffix(Repeat(<<"?", ",">>, ncols), ",") \o <<")">>
    IN TrimSuffix(Repeat(placeholder \o <<",">>, nrows), ",")

IdentityInsertOn(table) ==
    <<"SET IDENTITY_INSERT", "[", Schema, "]", ".", "[", table, "]", "ON">>

InsertSql(cols, values) ==
    <<"insert into">> \o QuoteIdentifier(<<Schema>>) \o <<".">> \o QuoteIdentifier(<<TableName>>)
    \o <<"(">> \o Join([i \in 1..Len(cols) |-> <<cols[i]>>], ",") \o <<")", "values">>
    \o Placeholders(Len(cols), Len(values))

\* MssqlDialect.batchInsertSimple. f: which of the queries and statements
\* the database accepts; cons: the constraints on the table before the call
batchInsertSimple(cons, cols, values, duplicateStrategy, f) ==
    LET ignore == duplicateStrategy = DuplicateStrategyIgnore
        idx == MssqlGetTableIndexWithPK(f.idx)
        uniqueColumns == IF ignore THEN UniqueColumns(idx.ret, <<>>) ELSE <<>>
        ignoreDupSql == IF ignore /\ Len(uniqueColumns) > 0
                        THEN IgnoreDupSql(uniqueColumns) ELSE <<>>
        on == TxExec(cons, ReplaceAll(ignoreDupSql, "{sign}", "ON"), <<>>, f.on)
        cons1 == IF ignoreDupSql # <<>> THEN on.cons ELSE cons
        ins == TxExec(cons1, IdentityInsertOn(TableName) \o InsertSql(cols, values),
                      Flatten(values), f.ins)
        off == TxExec(ins.cons, ReplaceAll(ignoreDupSql, "{sign}", "OFF"), <<>>, f.off)
    IN [ret |-> IF ins.stmt.ok THEN Len(values) ELSE 0,
        err |-> IF ins.stmt.ok THEN NoErr ELSE ExecError,
        queries |-> IF ignore THEN idx.queries ELSE <<>>,
        stmts |-> (IF ignoreDupSql # <<>> THEN <<on.stmt>> ELSE <<>>)
                  \o <<ins.stmt>>
                  \o (IF ignoreDupSql # <<>> THEN <<off.stmt>> ELSE <<>>),
        cons |-> IF ignoreDupSql # <<>> THEN off.cons ELSE ins.cons]

MergeSql(cols, values, pkCols, identityCols) ==
    LET name(c) == QuoteIdentifier(<<c>>)
        caseSqls == [i \in 1..Len(pkCols) |->
                       <<"T1", ".">> \o name(pkCols[i]) \o <<"=", "T2", ".">> \o name(pkCols[i])]
        updCols == SelectSeq(cols, LAMBDA c : ~ArrayContains(identityCols, RemoveQuote(c)))
        upds == [i \in 1..Len(updCols) |->
                   <<"T1", ".", updCols[i], "=", "T2", ".", updCols[i]>>]
        insertCols == [i \in 1..Len(cols) |-> <<cols[i]>>]
        insertVals == [i \in 1..Len(cols) |-> <<"T2", ".", cols[i]>>]
        phs == [i \in 1..Len(cols) |-> <<"?", cols[i]>>]
        tmp == <<"select">> \o Join(phs, ",")
        t2 == Join([i \in 1..Len(values) |-> tmp], "UNION ALL")
    IN <<"MERGE INTO">> \o QuoteIdentifier(<<Schema>>) \o <<".">> \o QuoteIdentifier(<<TableName>>)
       \o <<"T1", "USING", "(">> \o t2 \o <<")", "T2", "ON">> \o Join(caseSqls, "AND")
       \o <<"WHEN NOT MATCHED THEN INSERT", "(">> \o Join(insertCols, ",")
       \o <<")", "VALUES", "(">> \o Join(insertVals, ",") \o <<")">>
       \o <<"WHEN MATCHED THEN UPDATE SET">> \o Join(upds, ",")

\* the merge path of batchInsertMerge: one MERGE statement, its error returned
batchInsertMergeStatement(cons, cols, values, duplicateStrategy, f) ==
    LET gc == MssqlGetColumns(f.cols)
        pkCols == NamesWhere(gc.cols, "IsPrimaryKey")
        identityCols == NamesWhere(gc.cols, "IsIdentity")
        x == TxExec(cons, IdentityInsertOn(TableName)
                          \o MergeSql(cols, values, pkCols, identityCols) \o <<";">>,
                    Flatten(values), f.ins)
    IN [ret |-> IF x.stmt.ok THEN Len(values) ELSE 0,
        err |-> IF x.stmt.ok THEN NoErr ELSE ExecError,
        queries |-> gc.queries,
        stmts |-> <<x.stmt>>,
        cons |-> x.cons]

\* batchInsertMerge that builds the merge whether or not a primary key exists
batchInsertMergeNoFallback(cons, cols, values, duplicateStrategy, f) ==
    batchInsertMergeStatement(cons, cols, values, duplicateStrategy, f)

\* MssqlDialect.batchInsertMerge: the error of GetColumns is not looked at;
\* without a primary-key column the call is batchInsertSimple
batchInsertMerge(cons, cols, values, duplicateStrategy, f) ==
    LET gc == MssqlGetColumns(f.cols)
        pkCols == NamesWhere(gc.cols, "IsPrimaryKey")
        simple == batchInsertSimple(cons, cols, values, duplicateStrategy, f)
    IN IF Len(pkCols) = 0
       THEN [simple EXCEPT !.queries = gc.queries \o @]
       ELSE batchInsertMergeStatement(cons, cols, values, duplicateStrategy, f)

\* MssqlDialect.BatchInsert
BatchInsert(cons, cols, values, duplicateStrategy, f) ==
    IF duplicateStrategy = DuplicateStrategyUpdate
    THEN batchInsertMerge(cons, cols, values, duplicateStrategy, f)
    ELSE batchInsertSimple(cons, cols, values, duplicateStrategy, f)

\* -------------------------------------------------------------------- DDL
\* the comment of the table, as the table queries return it
TableComment == <<>>

\* "EXEC sp_addextendedproperty N'MS_Description', N'<comment>', N'SCHEMA', ..."
ExtendedProperty(comment, level) ==
    <<"EXEC sp_addextendedproperty", "N'MS_Description'", ",", "N'">>
    \o ReplaceAll(comment, "'", "\\'") \o <<"'", ",">> \o level \o <<";">>

\* one column definition of CopyTableDDL with the nullability test inverted
MssqlColumnDefMutant(v, last) ==
    <<"[", v.ColumnName, "]", v.ColumnType>>
    \o (IF v.Nullable = "YES" THEN <<"NOT NULL">> ELSE <<"NULL">>)
    \o (IF v.IsIdentity THEN <<"IDENTITY", "(1,11)">> ELSE <<>>)
    \o (IF v.ColumnDefault # <<>> THEN <<"DEFAULT">> \o v.ColumnDefault ELSE <<>>)
    \o (IF ~last THEN <<",">> ELSE <<>>)

\* one column definition of CopyTableDDL; last: i = len(columns)-1
MssqlColumnDef(v, last) ==
    <<"[", v.ColumnName, "]", v.ColumnType>>
    \o (IF v.Nullable = "NO" THEN <<"NOT NULL">> ELSE <<"NULL">>)
    \o (IF v.IsIdentity THEN <<"IDENTITY", "(1,11)">> ELSE <<>>)
    \o (IF v.ColumnDefault # <<>> THEN <<"DEFAULT">> \o v.ColumnDefault ELSE <<>>)
    \o (IF ~last THEN <<",">> ELSE <<>>)

\* the CREATE TABLE statement of CopyTableDDL
MssqlCreateTable(cols, newTableName) ==
    LET baseTable == QuoteIdentifier(<<Schema>>) \o <<".">> \o QuoteIdentifier(newTableName)
        defs == Flatten([i \in 1..Len(cols) |-> MssqlColumnDef(cols[i], i = Len(cols))])
        pks == [i \in 1..Len(PkNames(cols)) |-> <<"[", PkNames(cols)[i], "]">>]
    IN <<"CREATE TABLE">> \o baseTable \o <<"(">> \o defs
       \o (IF Len(pks) > 0
           THEN <<"CONSTRAINT", "PK_">> \o newTableName \o <<"PRIMARY KEY", "(">>
                \o Join(pks, ",") \o <<")">>
           ELSE <<>>)
       \o <<")", ";">>

\* the CREATE INDEX statements and the comment statements of CopyTableDDL
MssqlIndexDDL(indexs, newTableName) ==
    LET baseTable == QuoteIdentifier(<<Schema>>) \o <<".">> \o QuoteIdentifier(newTableName)
    IN Flatten([i \in 1..Len(indexs) |->
           <<"CREATE NONCLUSTERED INDEX", "[">> \o indexs[i].IndexName \o <<"]", "ON">>
           \o baseTable \o <<"(">> \o indexs[i].ColumnName \o <<")", ";">>])

MssqlComments(cols, indexs, newTableName) ==
    (IF TableComment # <<>>
     THEN ExtendedProperty(TableComment, <<"TABLE">> \o newTableName) ELSE <<>>)
    \o Flatten([i \in 1..Len(cols) |->
           IF cols[i].ColumnComment # <<>>
           THEN ExtendedProperty(cols[i].ColumnComment,
                    <<"TABLE">> \o newTableName \o <<"COLUMN", cols[i].ColumnName>>)
           ELSE <<>>])
    \o Flatten([i \in 1..Len(indexs) |->
           IF indexs[i].IndexComment # <<>>
           THEN ExtendedProperty(indexs[i].IndexComment,
                    <<"TABLE">> \o newTableName \o <<"INDEX">> \o indexs[i].IndexName)
           ELSE <<>>])

\* MssqlDialect.CopyTableDDL; f: which metadata queries the database answers
MssqlCopyTableDDL(newTableName, f) ==
    LET new == IF newTableName = <<>> THEN <<TableName>> ELSE newTableName
        q1 == <<Query("MSSQL_TABLE_DETAIL", f.detail)>>
        gc == MssqlGetColumns(f.cols)
        ix == MssqlGetTableIndex(f.idx)
    IN IF ~f.detail THEN [ret |-> <<>>, err |-> QueryError, queries |-> q1]
       ELSE IF gc.err # NoErr
       THEN [ret |-> <<>>, err |-> gc.err, queries |-> q1 \o gc.queries]
       ELSE IF ix.err # NoErr
       THEN [ret |-> <<>>, err |-> ix.err, queries |-> q1 \o gc.queries \o ix.queries]
       ELSE [ret |-> MssqlCreateTable(gc.cols, new) \o MssqlIndexDDL(ix.ret, new)
                     \o MssqlComments(gc.cols, ix.ret, new),
             err |-> NoErr,
             queries |-> q1 \o gc.queries \o ix.queries]

\* the identifier quoting of MySQL; the token BACKTICK is the backquote character
MysqlQuoteIdentifier(name) == <<"BACKTICK">> \o name \o <<"BACKTICK">>

\* Column.GetColumnType: the native type of the column
GetColumnType(column) == column.DataType

\* the native types whose name contains char, text, date, time or lob
QuotedDefaultTypes ==
    {"char", "varchar", "text", "longtext", "mediumtext", "date", "datetime", "time",
     "timestamp", "blob", "longblob", "mediumblob"}

\* strings.NewReplacer(";", "", "'", "")
StripQuotes(text) == SelectSeq(text, LAMBDA t : t \notin {";", "'"})

\* MysqlMetaData.genColumnBasicSql
genColumnBasicSql(column) ==
    LET incr == IF column.IsIdentity THEN <<"AUTO_INCREMENT">> ELSE <<>>
        nullAble == IF ~column.Nullable THEN <<"NOT NULL">> ELSE <<>>
        mark == /\ column.DataType \in QuotedDefaultTypes
                /\ ~(/\ column.DataType \in {"date", "datetime", "time", "timestamp"}
                     /\ (HasPrefix(column.ColumnDefault, "CURRENT_DATE")
                         \/ HasPrefix(column.ColumnDefault, "CURRENT_TIME")
                         \/ HasPrefix(column.ColumnDefault, "CURRENT_TIMESTAMP")))
        defVal == IF column.ColumnDefault # <<>>
                     /\ ~ArrayContains(column.ColumnDefault, "(")
                  THEN IF mark THEN <<"DEFAULT", "'">> \o column.ColumnDefault \o <<"'">>
                       ELSE <<"DEFAULT">> \o column.ColumnDefault
                  ELSE <<>>
        comment == IF column.ColumnComment # <<>>
                   THEN <<"COMMENT", "'">> \o StripQuotes(column.ColumnComment) \o <<"'">>
                   ELSE <<>>
    IN MysqlQuoteIdentifier(<<column.ColumnName>>) \o <<GetColumnType(column)>>
       \o nullAble \o incr \o defVal \o comment

\* MysqlMetaData.GenerateTableDDL with dropBeforeCreate = false: one statement
GenerateTableDDL(cols, tableInfo) ==
    LET fields == [i \in 1..Len(cols) |-> genColumnBasicSql(cols[i])]
        pks == [i \in 1..Len(PkNames(cols)) |-> <<PkNames(cols)[i]>>]
    IN <<"CREATE TABLE">> \o MysqlQuoteIdentifier(<<tableInfo.TableName>>) \o <<"(">>
       \o Join(fields, ",")
       \o (IF Len(pks) > 0
           THEN <<",", "PRIMARY KEY", "(">> \o Join(pks, ",") \o <<")">> ELSE <<>>)
       \o <<")", "ENGINE=InnoDB DEFAULT CHARSET=utf8mb4">>
       \o (IF tableInfo.TableComment # <<>>
           THEN <<"COMMENT", "'">> \o StripQuotes(tableInfo.TableComment) \o <<"'">>
           ELSE <<>>)

\* MysqlMetaData.GenerateIndexDDL: one ALTER TABLE .. ADD INDEX per index
GenerateIndexDDL(indexs, tableInfo) ==
    [i \in 1..Len(indexs) |->
        LET index == indexs[i]
            bare == SelectSeq(index.ColumnName, LAMBDA t : t \notin {"-", "_"})
            colName == ReplaceAll(bare, ",", "_")
            keyType == IF index.IsUnique THEN "unique" ELSE "normal"
            unique == IF index.IsUnique THEN <<"unique">> ELSE <<>>
        IN <<"ALTER TABLE">> \o MysqlQuoteIdentifier(<<tableInfo.TableName>>) \o <<"ADD">>
           \o unique \o <<"INDEX", keyType, "_key_", tableInfo.TableName, "_">> \o colName
           \o <<"(">> \o index.ColumnName \o <<")", "USING BTREE", "COMMENT", "'">>
           \o StripQuotes(index.IndexComment) \o <<"'">>]

\* MysqlMetaData.GetTables(tableName): the rows of the table query
MysqlGetTables(ok) ==
    [tbs |-> IF ok /\ Len(columns) > 0
             THEN <<[TableName |-> TableName, TableComment |-> TableComment]>>
             ELSE <<>>,
     err |-> IF ok THEN NoErr ELSE QueryError,
     queries |-> <<Query("MYSQL_TABLE_INFO", ok)>>]

\* MysqlMetaData.GetTableDDL: the table query's error is returned only when
\* rows came with it; tbs[0] on an empty result is a crash
MysqlGetTableDDL(f) ==
    LET gt == MysqlGetTables(f.detail)
        gc == MysqlGetColumns(f.cols)
        ix == MysqlGetTableIndex(f.idx)
    IN IF gt.err # NoErr /\ Len(gt.tbs) > 0
       THEN [ret |-> <<>>, err |-> gt.err, queries |-> gt.queries]
       ELSE IF Len(gt.tbs) = 0
       THEN [ret |-> <<>>, err |-> Panic, queries |-> gt.queries]
       ELSE IF gc.err # NoErr
       THEN [ret |-> <<>>, err |-> gc.err, queries |-> gt.queries \o gc.queries]
       ELSE IF ix.err # NoErr
       THEN [ret |-> <<>>, err |-> ix.err,
             queries |-> gt.queries \o gc.queries \o ix.queries]
       ELSE [ret |-> Join(<<GenerateTableDDL(gc.cols, gt.tbs[1])>>
                          \o GenerateIndexDDL(ix.ret, gt.tbs[1]), ";"),
             err |-> NoErr,
             queries |-> gt.queries \o gc.queries \o ix.queries]

\* ------------------------------------------------------------- table copy
\* time.Now().Format("20060102150405") at the seconds 1, 2, ...
Stamp == <<"20060102150401", "20060102150402", "20060102150403", "20060102150404">>

\* copy.TableName + "_copy_" + timestamp
NewTableName(now) == <<TableName, "_copy_", Stamp[now]>>

\* md.dc.Exec of the DDL: a table that exists cannot be created again
ExecDDL(tables, newTableName, ddl, wantOk) ==
    LET ok == wantOk /\ newTableName \notin tables
    IN [stmt |-> Stmt(ddl, <<>>, ok),
        err |-> IF ok THEN NoErr ELSE ExecError,
        tables |-> IF ok THEN tables \cup {newTableName} ELSE tables]

\* the background task of CopyTable, before its column lookup
NewTask(newTableName) ==
    [newTableName |-> newTableName, pc |-> "columns", columnNames |-> <<>>,
     hasIdentity |-> FALSE, stmt |-> <<>>, logged |-> NoErr]

\* the synchronous part of CopyTable that starts the copy task whatever the
\* outcome of the DDL
CopyTableAlwaysCopies(tables, now, copyData, f) ==
    LET newTableName == NewTableName(now)
        ddl == MssqlCopyTableDDL(newTableName, f)
        x == ExecDDL(tables, newTableName, ddl.ret, f.exec)
    IN IF ddl.err # NoErr
       THEN [err |-> ddl.err, queries |-> ddl.queries, stmts |-> <<>>,
             tables |-> tables, spawn |-> IF copyData THEN <<NewTask(newTableName)>> ELSE <<>>]
       ELSE [err |-> x.err, queries |-> ddl.queries, stmts |-> <<x.stmt>>,
             tables |-> x.tables, spawn |-> IF copyData THEN <<NewTask(newTableName)>> ELSE <<>>]

\* the synchronous part of CopyTable as it would be if it waited for the copy
\* and handed its failure to the caller
CopyTableReturnsCopyError(tables, now, copyData, f) ==
    LET newTableName == NewTableName(now)
        ddl == MssqlCopyTableDDL(newTableName, f)
        x == ExecDDL(tables, newTableName, ddl.ret, f.exec)
    IN IF ddl.err # NoErr
       THEN [err |-> ddl.err, queries |-> ddl.queries, stmts |-> <<>>,
             tables |-> tables, spawn |-> <<>>]
       ELSE IF x.err # NoErr
       THEN [err |-> x.err, queries |-> ddl.queries, stmts |-> <<x.stmt>>,
             tables |-> tables, spawn |-> <<>>]
       ELSE [err |-> IF copyData THEN ExecError ELSE NoErr,
             queries |-> ddl.queries, stmts |-> <<x.stmt>>,
             tables |-> x.tables,
             spawn |-> IF copyData THEN <<NewTask(newTableName)>> ELSE <<>>]

\* the synchronous part of MssqlDialect.CopyTable: the DDL is generated and
\* executed; the copy task is started after both succeeded, if copyData
CopyTable(tables, now, copyData, f) ==
    LET newTableName == NewTableName(now)
        ddl == MssqlCopyTableDDL(newTableName, f)
        x == ExecDDL(tables, newTableName, ddl.ret, f.exec)
    IN IF ddl.err # NoErr
       THEN [err |-> ddl.err, queries |-> ddl.queries, stmts |-> <<>>,
             tables |-> tables, spawn |-> <<>>]
       ELSE IF x.err # NoErr
       THEN [err |-> x.err, queries |-> ddl.queries, stmts |-> <<x.stmt>>,
             tables |-> tables, spawn |-> <<>>]
       ELSE [err |-> NoErr, queries |-> ddl.queries, stmts |-> <<x.stmt>>,
             tables |-> x.tables,
             spawn |-> IF copyData THEN <<NewTask(newTableName)>> ELSE <<>>]

\* the copy task's column lookup: a failure is logged and ends the task
TaskGetColumns(task, ok) ==
    LET gc == MssqlGetColumns(ok) IN
    IF gc.err # NoErr THEN [task EXCEPT !.pc = "failed", !.logged = gc.err]
    ELSE [task EXCEPT
             !.pc = "insert",
             !.columnNames = [i \in 1..Len(gc.cols) |-> <<"[", gc.cols[i].ColumnName, "]">>],
             !.hasIdentity = \E i \in 1..Len(gc.cols) : gc.cols[i].IsIdentity]

\* " <identity insert on> INSERT INTO [s].[new] (<columns>) SELECT * FROM [s].[t]"
CopyDataSql(task) ==
    (IF task.hasIdentity
     THEN <<"SET IDENTITY_INSERT", "[", Schema, "]", ".", "[">> \o task.newTableName
          \o <<"]", "ON">>
     ELSE <<>>)
    \o <<"INSERT INTO", "[", Schema, "]", ".", "[">> \o task.newTableName \o <<"]", "(">>
    \o Join(task.columnNames, ",")
    \o <<")", "SELECT", "*", "FROM", "[", Schema, "]", ".", "[", TableName, "]">>

\* the copy task's insert-select: a failure is logged
TaskExec(task, ok) ==
    [task EXCEPT !.pc = IF ok THEN "done" ELSE "failed",
                 !.stmt = <<Stmt(CopyDataSql(task), <<>>, ok)>>,
                 !.logged = IF ok THEN NoErr ELSE ExecError]

\* -------------------------------------------------------------- converters
\* mysql data type -> common data type
commonColumnTypeMap ==
    [t \in {"bigint", "binary", "blob", "char", "datetime", "date", "decimal",
            "double", "enum", "float", "int", "json", "longblob", "longtext",
            "mediumblob", "mediumtext", "set", "smallint", "text", "time",
            "timestamp", "tinyint", "varbinary", "varchar"} |->
        CASE t = "bigint" -> "CommonTypeBigint"
          [] t = "binary" -> "CommonTypeBinary"
          [] t = "blob" -> "CommonTypeBlob"
          [] t = "char" -> "CommonTypeChar"
          [] t = "datetime" -> "CommonTypeDatetime"
          [] t = "date" -> "CommonTypeDate"
          [] t = "decimal" -> "CommonTypeNumber"
          [] t = "double" -> "CommonTypeNumber"
          [] t = "enum" -> "CommonTypeEnum"
          [] t = "float" -> "CommonTypeNumber"
          [] t = "int" -> "CommonTypeInt"
          [] t = "json" -> "CommonTypeJSON"
          [] t = "longblob" -> "CommonTypeLongblob"
          [] t = "longtext" -> "CommonTypeLongtext"
          [] t = "mediumblob" -> "CommonTypeBlob"
          [] t = "mediumtext" -> "CommonTypeText"
          [] t = "set" -> "CommonTypeVarchar"
          [] t = "smallint" -> "CommonTypeSmallint"
          [] t = "text" -> "CommonTypeText"
          [] t = "time" -> "CommonTypeTime"
          [] t = "timestamp" -> "CommonTypeTimestamp"
          [] t = "tinyint" -> "CommonTypeTinyint"
          [] t = "varbinary" -> "CommonTypeVarbinary"
          [] t = "varchar" -> "CommonTypeVarchar"]

\* common data type -> mysql data type
mysqlColumnTypeMap ==
    [t \in {"CommonTypeVarchar", "CommonTypeChar", "CommonTypeText", "CommonTypeBlob",
            "CommonTypeLongblob", "CommonTypeLongtext", "CommonTypeBinary",
            "CommonTypeMediumblob", "CommonTypeMediumtext", "CommonTypeVarbinary",
            "CommonTypeInt", "CommonTypeSmallint", "CommonTypeTinyint",
            "CommonTypeNumber", "CommonTypeBigint", "CommonTypeDatetime",
            "CommonTypeDate", "CommonTypeTime", "CommonTypeTimestamp",
            "CommonTypeEnum", "CommonTypeJSON"} |->
        CASE t = "CommonTypeVarchar" -> "varchar"
          [] t = "CommonTypeChar" -> "char"
          [] t = "CommonTypeText" -> "text"
          [] t = "CommonTypeBlob" -> "blob"
          [] t = "CommonTypeLongblob" -> "longblob"
          [] t = "CommonTypeLongtext" -> "longtext"
          [] t = "CommonTypeBinary" -> "binary"
          [] t = "CommonTypeMediumblob" -> "blob"
          [] t = "CommonTypeMediumtext" -> "text"
          [] t = "CommonTypeVarbinary" -> "varbinary"
          [] t = "CommonTypeInt" -> "int"
          [] t = "CommonTypeSmallint" -> "smallint"
          [] t = "CommonTypeTinyint" -> "tinyint"
          [] t = "CommonTypeNumber" -> "decimal"
          [] t = "CommonTypeBigint" -> "bigint"
          [] t = "CommonTypeDatetime" -> "datetime"
          [] t = "CommonTypeDate" -> "date"
          [] t = "CommonTypeTime" -> "time"
          [] t = "CommonTypeTimestamp" -> "timestamp"
          [] t = "CommonTypeEnum" -> "enum"
          [] t = "CommonTypeJSON" -> "json"]

\* m[key] of a Go map: the zero value "" when the key is absent
MapLookup(m, key) == IF key \in DOMAIN m THEN m[key] ELSE ""

\* the lookup of a common type in a map that has lost its Number entry and
\* swaps the native types of Blob and Longblob
ToMysqlTypeIncomplete(common) ==
    IF common = "CommonTypeNumber" THEN ""
    ELSE IF common = "CommonTypeBlob" THEN "longblob"
    ELSE IF common = "CommonTypeLongblob" THEN "blob"
    ELSE MapLookup(mysqlColumnTypeMap, common)

\* native -> common -> native through the two maps
ToCommonType(native) == MapLookup(commonColumnTypeMap, native)

ToMysqlType(common) == MapLookup(mysqlColumnTypeMap, common)

\* the composition native -> common -> native
NativeRoundTrip(native) == ToMysqlType(ToCommonType(native))

\* a type string is a sequence of characters
DataTypeNumber == "Number"
DataTypeDateTime == "DateTime"
DataTypeDate == "Date"
DataTypeTime == "Time"
DataTypeString == "String"

\* the lower-case form of a character, for the (?i) of the patterns
LowerChar(ch) ==
    CASE ch = "A" -> "a" [] ch = "D" -> "d" [] ch = "E" -> "e" [] ch = "I" -> "i"
      [] ch = "M" -> "m" [] ch = "T" -> "t" [] OTHER -> ch

ToLower(s) == [i \in 1..Len(s) |-> LowerChar(s[i])]

\* s contains sub as a substring
Contains(s, sub) ==
    \E i \in 0..(Len(s) - Len(sub)) : SubSeq(s, i + 1, i + Len(sub)) = sub

\* regexp.MatchString of a case-insensitive alternation of literals
MatchString(alternatives, s) == \E a \in alternatives : Contains(ToLower(s), a)

\* (?i)int|double|float|number|decimal|byte|bit
numberRegexp ==
    {<<"i", "n", "t">>, <<"d", "o", "u", "b", "l", "e">>, <<"f", "l", "o", "a", "t">>,
     <<"n", "u", "m", "b", "e", "r">>, <<"d", "e", "c", "i", "m", "a", "l">>,
     <<"b", "y", "t", "e">>, <<"b", "i", "t">>}

\* (?i)datetime|timestamp
datetimeRegexp ==
    {<<"d", "a", "t", "e", "t", "i", "m", "e">>,
     <<"t", "i", "m", "e", "s", "t", "a", "m", "p">>}

\* (?i)date
dateRegexp == {<<"d", "a", "t", "e">>}

\* (?i)time
timeRegexp == {<<"t", "i", "m", "e">>}

\* DataConverter.GetDataType, the same in both dialects: the first pattern
\* that matches decides
GetDataType(dbColumnType) ==
    IF MatchString(numberRegexp, dbColumnType) THEN DataTypeNumber
    ELSE IF MatchString(datetimeRegexp, dbColumnType) THEN DataTypeDateTime
    ELSE IF MatchString(dateRegexp, dbColumnType) THEN DataTypeDate
    ELSE IF MatchString(timeRegexp, dbColumnType) THEN DataTypeTime
    ELSE DataTypeString

\* the pieces the type strings handed to GetDataType are made of
Chunks ==
    {<<"d", "a", "t", "e">>, <<"t", "i", "m", "e">>, <<"s", "t", "a", "m", "p">>,
     <<"b", "i", "t">>, <<"_">>, <<"D", "A", "T", "E">>, <<"T", "i", "m", "e">>}

\* a value is a tuple led by its dynamic type: <<"string", text>>, <<"int", n>>,
\* <<"nil">>, or <<"time", year, month, day, hour, minute, second>>
ZeroTime == <<"time", 1, 1, 1, 0, 0, 0>>

\* the layouts of package time, element by element
DateOnly == <<"2006", "-", "01", "-", "02">>
TimeOnly == <<"15", ":", "04", ":", "05">>
DateTime == DateOnly \o <<" ">> \o TimeOnly
RFC3339 == DateOnly \o <<"T">> \o TimeOnly \o <<"Z07:00">>

FourDigit == {"2024"}
TwoDigit == {"01", "02", "13", "30", "99"}

\* the number a digit token stands for
NumOf(tok) ==
    CASE tok = "2024" -> 2024 [] tok = "01" -> 1 [] tok = "02" -> 2
      [] tok = "13" -> 13 [] tok = "30" -> 30 [] tok = "99" -> 99

IsLeap(year) == year % 4 = 0 /\ (year % 100 # 0 \/ year % 400 = 0)

DaysIn(month, year) ==
    IF month = 2 THEN (IF IsLeap(year) THEN 29 ELSE 28)
    ELSE IF month \in {4, 6, 9, 11} THEN 30 ELSE 31

\* the text has the shape of the layout: every field a number of the field's
\* width, every other element the layout's own character, nothing left over
HasShape(layout, text) ==
    /\ Len(text) = Len(layout)
    /\ \A i \in 1..Len(layout) :
          CASE layout[i] = "2006" -> text[i] \in FourDigit
            [] layout[i] \in {"01", "02", "15", "04", "05"} -> text[i] \in TwoDigit
            [] layout[i] = "Z07:00" -> text[i] = "Z"
            [] OTHER -> text[i] = layout[i]

\* the number read for a field of the layout, or what time.Parse assumes for
\* a field the layout leaves out
FieldOf(layout, text, field, omitted) ==
    IF \E i \in 1..Len(layout) : layout[i] = field
    THEN NumOf(text[CHOOSE i \in 1..Len(layout) : layout[i] = field])
    ELSE omitted

\* a parse that hands back the text it was given, parsed or not
TimeParseKeepsText(layout, text) == <<<<"string", text>>, NoErr>>

\* time.Parse(layout, text): the time and no error, or the zero time and an
\* error
TimeParse(layout, text) ==
    IF ~HasShape(layout, text) THEN <<ZeroTime, "ParseError">>
    ELSE LET year == FieldOf(layout, text, "2006", 0)
             month == FieldOf(layout, text, "01", 1)
             day == FieldOf(layout, text, "02", 1)
             hour == FieldOf(layout, text, "15", 0)
             min == FieldOf(layout, text, "04", 0)
             sec == FieldOf(layout, text, "05", 0)
         IN IF /\ month \in 1..12 /\ hour < 24 /\ min < 60 /\ sec < 60
               /\ day \in 1..DaysIn(month, year)
            THEN <<<<"time", year, month, day, hour, min, sec>>, NoErr>>
            ELSE <<ZeroTime, "ParseError">>

\* DataConverter.ParseData of SQL Server
MssqlParseData(dbColumnValue, dataType) ==
    LET ok == dbColumnValue[1] = "string" IN
    IF dataType = DataTypeDateTime /\ ok THEN TimeParse(RFC3339, dbColumnValue[2])[1]
    ELSE IF dataType = DataTypeDate /\ ok THEN TimeParse(DateOnly, dbColumnValue[2])[1]
    ELSE IF dataType = DataTypeTime /\ ok THEN TimeParse(TimeOnly, dbColumnValue[2])[1]
    ELSE dbColumnValue

\* DataConverter.ParseData of MySQL
MysqlParseData(dbColumnValue, dataType) ==
    LET ok == dbColumnValue[1] = "string" IN
    IF ok /\ dataType = DataTypeDateTime THEN TimeParse(DateTime, dbColumnValue[2])[1]
    ELSE IF ok /\ dataType = DataTypeDate THEN TimeParse(DateOnly, dbColumnValue[2])[1]
    ELSE IF ok /\ dataType = DataTypeTime THEN TimeParse(TimeOnly, dbColumnValue[2])[1]
    ELSE dbColumnValue

\* the texts handed to ParseData: dates, times of day, both together in the
\* two date-and-time forms, and texts that are neither
DateTexts == {<<y, "-", m, "-", d>> : y \in FourDigit, m \in TwoDigit, d \in TwoDigit}
TimeTexts == {<<h, ":", m, ":", s>> : h \in TwoDigit, m \in TwoDigit, s \in {"01", "99"}}
FewDateTexts == {<<"2024", "-", m, "-", d>> : m \in {"02", "13"}, d \in {"13", "30"}}
FewTimeTexts == {<<h, ":", "30", ":", "01">> : h \in {"13", "30"}}

ParseTexts ==
    DateTexts \cup TimeTexts
    \cup {d \o <<sep>> \o t \o z : d \in FewDateTexts, t \in FewTimeTexts,
                                  sep \in {" ", "T"}, z \in {<<>>, <<"Z">>}}
    \cup {<<"not-a-date">>, <<>>}

ParseValues ==
    {<<"string", text>> : text \in ParseTexts}
    \cup {<<"int", 5>>, <<"nil">>, <<"time", 2024, 2, 13, 13, 30, 1>>}

DataTypes == {DataTypeNumber, DataTypeDateTime, DataTypeDate, DataTypeTime, DataTypeString}

\* the type strings of at most n pieces
RECURSIVE TypeStrings(_)
TypeStrings(n) ==
    IF n = 0 THEN {<<>>}
    ELSE LET shorter == TypeStrings(n - 1)
         IN shorter \cup {s \o c : s \in shorter, c \in Chunks}

\* ------------------------------------------------------------------ state
\* a call: operation, dialect, duplicate strategy, columns, values, new table
\* name, copyData
CallWith(name, dialect, strategy, cols, values, newTableName, copyData) ==
    <<name, dialect, strategy, cols, values, newTableName, copyData>>

CallName(c) == c[1]
CallDialect(c) == c[2]
CallStrategy(c) == c[3]
CallColumns(c) == c[4]
CallValues(c) == c[5]
CallNewTableName(c) == c[6]
CallCopyData(c) == c[7]

Call(name, dialect) == CallWith(name, dialect, "", <<>>, <<>>, <<>>, FALSE)

Init ==
    /\ columns \in ColumnLists
    /\ indexRows \in IndexRowLists(columns)
    /\ constraints = {}
    /\ op = Call("", "")
    /\ ret = <<>>
    /\ err = NoErr
    /\ stmts = <<>>
    /\ queries = <<>>
    /\ created = {}
    /\ tasks = <<>>
    /\ clock = 0

\* the handle serves one call at a time: a call starts once the caller has
\* taken the result of the one before
Idle == CallName(op) = ""

\* the caller takes the result of the call
Return ==
    /\ ~Idle
    /\ op' = Call("", "")
    /\ ret' = <<>>
    /\ err' = NoErr
    /\ stmts' = <<>>
    /\ queries' = <<>>
    /\ UNCHANGED <<columns, indexRows, constraints, created, tasks, clock>>

\* a call that touches neither the table nor the copy tasks
Returns(call, r) ==
    /\ Idle
    /\ op' = call
    /\ ret' = r.ret
    /\ err' = r.err
    /\ queries' = r.queries
    /\ stmts' = <<>>
    /\ UNCHANGED <<columns, indexRows, constraints, created, tasks, clock>>

MssqlGetPrimaryKeyCall ==
    \E ok \in BOOLEAN :
        \E gc \in {MssqlGetColumns(ok)} : \E r \in {GetPrimaryKey(gc)} :
        Returns(Call("GetPrimaryKey", "mssql"),
                [ret |-> r.ret, err |-> r.err, queries |-> gc.queries])

MysqlGetPrimaryKeyCall ==
    \E ok \in BOOLEAN :
        \E gc \in {MysqlGetColumns(ok)} : \E r \in {GetPrimaryKey(gc)} :
        Returns(Call("GetPrimaryKey", "mysql"),
                [ret |-> r.ret, err |-> r.err, queries |-> gc.queries])

MssqlGetTableIndexWithPKCall ==
    \E ok \in BOOLEAN :
        \E r \in {MssqlGetTableIndexWithPK(ok)} :
        Returns(Call("getTableIndexWithPK", "mssql"), r)

MssqlGetTableIndexCall ==
    \E ok \in BOOLEAN :
        \E r \in {MssqlGetTableIndex(ok)} :
        Returns(Call("GetTableIndex", "mssql"), r)

MysqlGetTableIndexCall ==
    \E ok \in BOOLEAN :
        \E r \in {MysqlGetTableIndex(ok)} :
        Returns(Call("GetTableIndex", "mysql"), r)

\* ---------------------------------------------------------- batch actions
Faults == [cols : BOOLEAN, idx : BOOLEAN, on : BOOLEAN, ins : BOOLEAN, off : BOOLEAN]

\* the outcomes a strategy can meet: it issues no other query or statement
FaultsFor(strategy) ==
    {f \in Faults :
        /\ strategy # DuplicateStrategyUpdate => f.cols
        /\ strategy # DuplicateStrategyIgnore => f.idx /\ f.on /\ f.off}

Reverse(s) == [i \in 1..Len(s) |-> s[Len(s) + 1 - i]]

\* the caller names every column of the table, in declaration order or
\* reversed, bare or bracketed
CallerColumns ==
    LET names == [i \in 1..Len(columns) |-> columns[i].ColumnName]
        quoted == [i \in 1..Len(columns) |-> QuotedNameSeq[i]]
    IN {names, Reverse(names), quoted}

\* r rows of c values; the value of row i, column j is 10*i + j
Rows(r, c) == [i \in 1..r |-> [j \in 1..c |-> 10 * i + j]]

BatchInsertCall ==
    /\ Idle
    /\ Len(columns) > 0
    /\ \E strategy \in {DuplicateStrategyNone, DuplicateStrategyIgnore, DuplicateStrategyUpdate},
          cols \in CallerColumns, r \in 1..MaxRows :
       \E f \in FaultsFor(strategy) :
        \E values \in {Rows(r, Len(cols))} :
        \E b \in {BatchInsert(constraints, cols, values, strategy, f)} :
        /\ op' = CallWith("BatchInsert", "mssql", strategy, cols, values, <<>>, FALSE)
        /\ ret' = b.ret
        /\ err' = b.err
        /\ queries' = b.queries
        /\ stmts' = b.stmts
        /\ constraints' = b.cons
        /\ UNCHANGED <<columns, indexRows, created, tasks, clock>>

\* MssqlDialect.WalkTableRecord: the table name goes into the SELECT as the
\* caller wrote it
WalkTableRecordSql(tableName) == <<"SELECT", "*", "FROM">> \o tableName

\* the caller writes the table name bare or bracketed
WalkTableRecordCall ==
    /\ Idle
    /\ \E tableName \in {<<TableName>>, QuoteIdentifier(<<TableName>>)}, ok \in BOOLEAN :
        /\ op' = CallWith("WalkTableRecord", "mssql", "", <<>>, <<>>, tableName, FALSE)
        /\ ret' = <<>>
        /\ err' = IF ok THEN NoErr ELSE QueryError
        /\ queries' = <<>>
        /\ stmts' = <<Stmt(WalkTableRecordSql(tableName), <<>>, ok)>>
        /\ UNCHANGED <<columns, indexRows, constraints, created, tasks, clock>>

\* the batch loader is exercised on tables whose columns are nullable unless
\* they belong to the primary key
InitBatch ==
    /\ Init
    /\ \A i \in 1..Len(columns) : columns[i].Nullable = "NO" <=> columns[i].IsPrimaryKey

NextBatch ==
    \/ BatchInsertCall
    \/ WalkTableRecordCall
    \/ Return

SpecBatch == InitBatch /\ [][NextBatch]_vars

MetaFaults == [detail : BOOLEAN, cols : BOOLEAN, idx : BOOLEAN]

\* GetTableDDL(t) is CopyTableDDL(t, ""); CopyTableDDL names the new table
MssqlCopyTableDDLCall ==
    \E newTableName \in {<<>>, <<"t2">>}, f \in MetaFaults :
        \E r \in {MssqlCopyTableDDL(newTableName, f)} :
        Returns(CallWith("CopyTableDDL", "mssql", "", <<>>, <<>>, newTableName, FALSE), r)

MysqlGetTableDDLCall ==
    \E f \in MetaFaults :
        \E r \in {MysqlGetTableDDL(f)} :
        Returns(Call("GetTableDDL", "mysql"), r)

\* ----------------------------------------------------------- copy actions
CopyFaults == [detail : BOOLEAN, cols : BOOLEAN, idx : BOOLEAN, exec : BOOLEAN]

\* CopyTable up to its return; two calls may fall into the same second
CopyTableCall ==
    /\ Idle
    /\ Len(tasks) < MaxCopies
    /\ \E now \in {clock, clock + 1}, copyData \in BOOLEAN, f \in CopyFaults :
        /\ now \in 1..MaxCopies
        /\ \E c \in {CopyTable(created, now, copyData, f)} :
            /\ op' = CallWith("CopyTable", "mssql", "", <<>>, <<>>,
                              NewTableName(now), copyData)
            /\ ret' = <<>>
            /\ err' = c.err
            /\ queries' = c.queries
            /\ stmts' = c.stmts
            /\ created' = c.tables
            /\ tasks' = tasks \o c.spawn
            /\ clock' = now
        /\ UNCHANGED <<columns, indexRows, constraints>>

\* a step of a copy task: it runs beside the calls of the caller
CopyTaskGetColumns ==
    \E i \in 1..Len(tasks), ok \in BOOLEAN :
        /\ tasks[i].pc = "columns"
        /\ tasks' = [tasks EXCEPT ![i] = TaskGetColumns(tasks[i], ok)]
        /\ UNCHANGED <<columns, indexRows, constraints, op, ret, err, stmts, queries,
                       created, clock>>

CopyTaskExec ==
    \E i \in 1..Len(tasks), ok \in BOOLEAN :
        /\ tasks[i].pc = "insert"
        /\ tasks' = [tasks EXCEPT ![i] = TaskExec(tasks[i], ok)]
        /\ UNCHANGED <<columns, indexRows, constraints, op, ret, err, stmts, queries,
                       created, clock>>

\* the table copier is exercised on tables without a secondary index
InitCopy ==
    /\ Init
    /\ \A i \in 1..Len(indexRows) : indexRows[i].IndexName = PKIndexName

NextCopy ==
    \/ CopyTableCall
    \/ CopyTaskGetColumns
    \/ CopyTaskExec
    \/ Return

SpecCopy == InitCopy /\ [][NextCopy]_vars

NextMeta ==
    \/ MssqlGetPrimaryKeyCall
    \/ MysqlGetPrimaryKeyCall
    \/ MssqlGetTableIndexWithPKCall
    \/ MssqlGetTableIndexCall
    \/ MysqlGetTableIndexCall
    \/ MssqlCopyTableDDLCall
    \/ MysqlGetTableDDLCall
    \/ Return

SpecMeta == Init /\ [][NextMeta]_vars

\* ------------------------------------------------------ converter actions
\* a native type of MySQL is taken to its common type and back, twice
TypeMapCall ==
    \E native \in DOMAIN commonColumnTypeMap :
        \E common \in {ToCommonType(native)} : \E back \in {NativeRoundTrip(native)} :
        Returns(CallWith("TypeMap", "mysql", "", <<>>, <<native>>, <<>>, FALSE),
                [ret |-> <<common, back, NativeRoundTrip(back)>>, err |-> NoErr,
                 queries |-> <<>>])

\* ret holds the one value GetDataType returns
GetDataTypeCall ==
    \E dialect \in {"mssql", "mysql"}, dbColumnType \in TypeStrings(MaxChunks) :
        Returns(CallWith("GetDataType", dialect, "", <<>>, <<dbColumnType>>, <<>>, FALSE),
                [ret |-> <<GetDataType(dbColumnType)>>, err |-> NoErr, queries |-> <<>>])

MssqlParseDataCall ==
    \E dbColumnValue \in ParseValues, dataType \in DataTypes :
        Returns(CallWith("ParseData", "mssql", "", <<>>, <<dbColumnValue, dataType>>,
                         <<>>, FALSE),
                [ret |-> MssqlParseData(dbColumnValue, dataType), err |-> NoErr,
                 queries |-> <<>>])

MysqlParseDataCall ==
    \E dbColumnValue \in ParseValues, dataType \in DataTypes :
        Returns(CallWith("ParseData", "mysql", "", <<>>, <<dbColumnValue, dataType>>,
                         <<>>, FALSE),
                [ret |-> MysqlParseData(dbColumnValue, dataType), err |-> NoErr,
                 queries |-> <<>>])

\* the converters and the type maps do not look at a table
InitConv ==
    /\ Init
    /\ columns = <<>>

NextConv ==
    \/ TypeMapCall
    \/ GetDataTypeCall
    \/ MssqlParseDataCall
    \/ MysqlParseDataCall
    \/ Return

SpecConv == InitConv /\ [][NextConv]_vars

\* every operation of the drivers, on every table
Next ==
    \/ NextMeta
    \/ NextBatch
    \/ NextCopy
    \/ NextConv

Spec == Init /\ [][Next]_vars

\* ------------------------------------------------------------------ claims
IsCall(name, dialect) == CallName(op) = name /\ CallDialect(op) = dialect

HasToken(text, tok) == \E i \in 1..Len(text) : text[i] = tok

HasUniqueIndex == \E i \in 1..Len(indexRows) : indexRows[i].IsUnique

\* C1 (as claimed): after a BatchInsert with strategy Ignore on a table that
\* has a unique index, the constraint uniqueRows is not on the table.
C1_ConstraintAbsentAfterIgnore ==
    (IsCall("BatchInsert", "mssql") /\ CallStrategy(op) = DuplicateStrategyIgnore
        /\ HasUniqueIndex)
    => "uniqueRows" \notin constraints

\* a statement "SET IDENTITY_INSERT [s].[t] <sign>" starts at token k of text
IdentityToggleAt(text, k, sign) ==
    /\ k + 8 <= Len(text)
    /\ text[k] = "SET IDENTITY_INSERT"
    /\ text[k + 8] = sign

\* position of token k of statement i in the stream of executed statements
StreamPos(i, k) == i * 1000 + k

\* C2 (as claimed): a BatchInsert with strategy None toggles identity insert
\* ON before the INSERT and attempts to toggle it OFF after the INSERT.
C2_IdentityInsertBracketed ==
    (IsCall("BatchInsert", "mssql") /\ CallStrategy(op) = DuplicateStrategyNone)
    => \E i \in 1..Len(stmts) : \E k \in 1..Len(stmts[i].text) :
          /\ stmts[i].text[k] = "insert into"
          /\ \E j \in 1..Len(stmts) : \E m \in 1..Len(stmts[j].text) :
                /\ IdentityToggleAt(stmts[j].text, m, "ON")
                /\ StreamPos(j, m) < StreamPos(i, k)
          /\ \E j \in 1..Len(stmts) : \E m \in 1..Len(stmts[j].text) :
                /\ IdentityToggleAt(stmts[j].text, m, "OFF")
                /\ StreamPos(j, m) > StreamPos(i, k)

\* every query and statement is accepted, and the INSERT ends as given
InsertOutcome(ok) == [cols |-> TRUE, idx |-> TRUE, on |-> TRUE, ins |-> ok, off |-> TRUE]

\* C3: a BatchInsert with strategy Update on a table without a primary-key
\* column executes no MERGE, and its statements, bound arguments, rows
\* affected and error are those of strategy None on the same table, columns
\* and rows, for the same outcome of the INSERT.
C3_UpdateWithoutPkIsNone ==
    (IsCall("BatchInsert", "mssql") /\ CallStrategy(op) = DuplicateStrategyUpdate
        /\ PkNames(columns) = <<>>)
    => /\ \A i \in 1..Len(stmts) : ~HasToken(stmts[i].text, "MERGE INTO")
       /\ \E ok \in BOOLEAN :
            LET none == BatchInsert(constraints, CallColumns(op), CallValues(op),
                                    DuplicateStrategyNone, InsertOutcome(ok))
            IN stmts = none.stmts /\ ret = none.ret /\ err = none.err

C3_Witness ==
    /\ IsCall("BatchInsert", "mssql") /\ CallStrategy(op) = DuplicateStrategyUpdate
    /\ PkNames(columns) = <<>>
    /\ Len(columns) = 2 /\ Len(CallValues(op)) = 2
    /\ ret = 2 /\ err = NoErr
    /\ queries = <<Query("MSSQL_COLUMN_MA", TRUE)>>

\* C4 (as claimed): when a metadata lookup made inside BatchInsert fails,
\* BatchInsert returns that error.
C4_LookupErrorReturned ==
    (IsCall("BatchInsert", "mssql") /\ \E i \in 1..Len(queries) : ~queries[i].ok)
    => err = QueryError

\* the distinct index names of the raw rows
IndexNames == {indexRows[i].IndexName : i \in 1..Len(indexRows)}

\* the column names of the rows of index n, in row order
RECURSIVE ColumnsOfIndex(_, _)
ColumnsOfIndex(rows, n) ==
    IF Len(rows) = 0 THEN <<>>
    ELSE (IF rows[1].IndexName = n THEN <<rows[1].ColumnName>> ELSE <<>>)
         \o ColumnsOfIndex(Tail(rows), n)

\* r holds one entry per index name of ns, its ColumnName the comma-join of
\* the index's columns in row order, in the order of the raw rows
IsFoldOf(r, ns) ==
    /\ Len(r) = Cardinality(ns)
    /\ \A n \in ns : \E i \in 1..Len(r) :
          /\ r[i].IndexName = n
          /\ r[i].ColumnName = Join(ColumnsOfIndex(indexRows, n), ",")
          /\ r[i].IsUnique = (\E k \in 1..Len(indexRows) :
                                 indexRows[k].IndexName = n /\ indexRows[k].IsUnique)
    /\ \A i, j \in 1..Len(r) : i < j =>
          \E k, l \in 1..Len(indexRows) :
              k < l /\ indexRows[k].IndexName = r[i].IndexName
                    /\ indexRows[l].IndexName = r[j].IndexName

\* C5 (as claimed): GetTableIndex of SQL Server returns exactly the folded
\* entries of the indexes whose name does not start with PK__, in order, and
\* an empty list without error for a table without indexes.
C5_GetTableIndexNonPk ==
    (IsCall("GetTableIndex", "mssql") /\ queries[1].ok)
    => /\ err = NoErr
       /\ IsFoldOf(ret, {n \in IndexNames : ~HasPrefix(n, PKPrefix)})

\* C6 (as claimed): index introspection of either dialect returns one entry
\* per distinct index name, its ColumnName the comma-join of the index's
\* column names in row order.
C6_OneEntryPerIndex ==
    ((IsCall("getTableIndexWithPK", "mssql") \/ IsCall("GetTableIndex", "mysql"))
        /\ queries[1].ok)
    => err = NoErr /\ IsFoldOf(ret, IndexNames)

PkPositions == {i \in 1..Len(columns) : columns[i].IsPrimaryKey}

Min(S) == CHOOSE x \in S : \A y \in S : x <= y

\* C7: GetPrimaryKey of either dialect, when the column lookup succeeds,
\* fails with table-not-found on zero columns, and otherwise returns the first
\* column flagged primary key, or the first column when none is flagged.
C7_GetPrimaryKey ==
    (CallName(op) = "GetPrimaryKey" /\ queries[1].ok)
    => IF Len(columns) = 0 THEN err = TableNotFound
       ELSE /\ err = NoErr
            /\ ret = IF PkPositions # {} THEN columns[Min(PkPositions)].ColumnName
                     ELSE columns[1].ColumnName

\* both dialects have answered with a primary key that is not the first column
C7_Witness ==
    /\ CallName(op) = "GetPrimaryKey" /\ queries[1].ok
    /\ Len(columns) = 2 /\ PkPositions = {2}
    /\ ret = columns[2].ColumnName /\ err = NoErr

\* the fallback and the failure have happened as well
C7_WitnessFallback ==
    /\ IsCall("GetPrimaryKey", "mysql") /\ queries[1].ok
    /\ Len(columns) = 2 /\ PkPositions = {}
    /\ ret = columns[1].ColumnName

C7_WitnessNotFound ==
    /\ IsCall("GetPrimaryKey", "mssql") /\ queries[1].ok
    /\ Len(columns) = 0 /\ err = TableNotFound

\* position of the first occurrence of a token
FirstIndex(text, tok) == Min({i \in 1..Len(text) : text[i] = tok})

\* The columns a database creates from a CREATE TABLE statement: the column
\* definitions follow the first "(", each starts with a quoted name and runs to
\* the next one; the list ends at the closing ")" or at the key constraint. A
\* column is nullable unless marked NOT NULL, and an identity column iff it
\* carries the identity marker.
RECURSIVE ScanColumns(_, _, _, _, _, _)
ScanColumns(ddl, i, open, marker, cur, result) ==
    IF i > Len(ddl) \/ ddl[i] \in {")", "CONSTRAINT", "PRIMARY KEY"} THEN result \o cur
    ELSE IF ddl[i] = open
    THEN ScanColumns(ddl, i + 3, open, marker,
             <<[ColumnName |-> ddl[i + 1], Nullable |-> TRUE, IsIdentity |-> FALSE]>>,
             result \o cur)
    ELSE IF ddl[i] = "NOT NULL" /\ cur # <<>>
    THEN ScanColumns(ddl, i + 1, open, marker,
             <<[cur[1] EXCEPT !.Nullable = FALSE]>>, result)
    ELSE IF ddl[i] = marker /\ cur # <<>>
    THEN ScanColumns(ddl, i + 1, open, marker,
             <<[cur[1] EXCEPT !.IsIdentity = TRUE]>>, result)
    ELSE ScanColumns(ddl, i + 1, open, marker, cur, result)

Reintrospect(ddl, dialect) ==
    ScanColumns(ddl, FirstIndex(ddl, "(") + 1,
                IF dialect = "mssql" THEN "[" ELSE "BACKTICK",
                IF dialect = "mssql" THEN "IDENTITY" ELSE "AUTO_INCREMENT",
                <<>>, <<>>)

IsDDLCall == IsCall("CopyTableDDL", "mssql") \/ IsCall("GetTableDDL", "mysql")

\* C8: for a table with a primary key, the CREATE TABLE statement of
\* GetTableDDL/CopyTableDDL defines one column per introspected column, in
\* order, with the same name, NOT NULL iff the column is not nullable and the
\* identity marker iff it is an identity column: the table created from it
\* re-introspects to the same (name, nullability, identity flag).
C8_DDLRoundTrip ==
    (IsDDLCall /\ err = NoErr /\ PkNames(columns) # <<>>)
    => Reintrospect(ret, CallDialect(op))
         = [i \in 1..Len(columns) |->
               [ColumnName |-> columns[i].ColumnName,
                Nullable |-> (columns[i].Nullable = "YES"),
                IsIdentity |-> columns[i].IsIdentity]]

\* SQL Server has generated the DDL of a two-column table with a primary key,
\* an identity column and a nullable column
C8_Witness ==
    /\ IsCall("CopyTableDDL", "mssql") /\ err = NoErr
    /\ Len(columns) = 2 /\ PkPositions = {1}
    /\ columns[1].IsIdentity /\ columns[2].Nullable = "YES"
    /\ HasToken(ret, "IDENTITY") /\ HasToken(ret, "NULL") /\ HasToken(ret, "NOT NULL")

C8_WitnessMysql ==
    /\ IsCall("GetTableDDL", "mysql") /\ err = NoErr
    /\ Len(columns) = 2 /\ PkPositions = {2}
    /\ columns[2].IsIdentity /\ columns[1].Nullable = "YES"
    /\ HasToken(ret, "AUTO_INCREMENT")

IsMetaCall ==
    CallName(op) \in {"GetPrimaryKey", "getTableIndexWithPK", "GetTableIndex",
                 "CopyTableDDL", "GetTableDDL"}

\* C9 (as claimed): when a metadata query of an introspection or
\* DDL-generation operation fails, the operation returns that error: it
\* neither succeeds nor crashes.
C9_QueryErrorPropagates ==
    (IsMetaCall /\ \E i \in 1..Len(queries) : ~queries[i].ok)
    => err = QueryError

\* C10: a copy task is started only by a CopyTable call with copyData that
\* generated and executed the DDL of the new table successfully; a CopyTable
\* call that returns an error starts no task, and every task copies into a
\* table that was created, so no data-copy statement follows a failed DDL.
C10_CopyAfterDDL ==
    /\ [][tasks' # tasks /\ Len(tasks') > Len(tasks)
            => /\ Idle /\ IsCall("CopyTable", "mssql")'
               /\ CallCopyData(op') /\ err' = NoErr
               /\ Len(stmts') = 1 /\ stmts'[1].ok /\ HasToken(stmts'[1].text, "CREATE TABLE")
               /\ tasks' = Append(tasks, NewTask(CallNewTableName(op')))
               /\ CallNewTableName(op') \notin created /\ CallNewTableName(op') \in created']_vars
    /\ [][IsCall("CopyTable", "mssql")' /\ Idle
            => /\ (err' # NoErr => tasks' = tasks /\ created' = created)
               /\ (~CallCopyData(op') => tasks' = tasks)
               /\ (CallCopyData(op') /\ err' = NoErr => Len(tasks') = Len(tasks) + 1)]_vars
    /\ [](\A i \in 1..Len(tasks) :
            /\ tasks[i].newTableName \in created
            /\ \A k \in 1..Len(tasks[i].stmt) :
                  HasToken(tasks[i].stmt[k].text, "INSERT INTO"))

\* a call with copyData has failed at the DDL, and a copy task of an earlier
\* call has issued its insert-select
C10_Witness ==
    /\ IsCall("CopyTable", "mssql") /\ CallCopyData(op) /\ err # NoErr
    /\ Len(tasks) = 1 /\ tasks[1].pc = "done" /\ Len(tasks[1].stmt) = 1

\* the copy tasks started for the table of the current CopyTable call
TasksOfCall == {i \in 1..Len(tasks) : tasks[i].newTableName = CallNewTableName(op)}

\* C11: once the CREATE TABLE of a CopyTable call has succeeded, the result
\* the caller holds is success, whatever the copy task has done so far, and
\* no step of a copy task changes the result the caller holds: a failed
\* column lookup or insert-select is only written to the task's log.
C11_CopyFailureOnlyLogged ==
    /\ [](IsCall("CopyTable", "mssql") /\ Len(stmts) = 1 /\ stmts[1].ok
            => err = NoErr)
    /\ [][ (\E i \in 1..Len(tasks) : Len(tasks') = Len(tasks) /\ tasks'[i] # tasks[i])
            => /\ op' = op /\ err' = err /\ ret' = ret
               /\ \A i \in 1..Len(tasks) :
                     tasks'[i].pc = "failed" /\ tasks[i].pc # "failed"
                         => tasks'[i].logged # NoErr ]_vars

\* the caller holds success for a copy whose task has failed
C11_Witness ==
    /\ IsCall("CopyTable", "mssql") /\ CallCopyData(op) /\ err = NoErr
    /\ \E i \in TasksOfCall : tasks[i].pc = "failed" /\ tasks[i].logged # NoErr

\* the position of the first token tok in text, 0 if there is none
IndexOf(text, tok) ==
    IF HasToken(text, tok)
    THEN CHOOSE i \in 1..Len(text) : text[i] = tok /\ \A k \in 1..(i - 1) : text[k] # tok
    ELSE 0

Count(text, tok) == Cardinality({i \in 1..Len(text) : text[i] = tok})

\* the sizes of the parenthesised placeholder groups of a value list: the
\* number of "?" between each "(" and the ")" that closes it
RECURSIVE GroupSizes(_)
GroupSizes(text) ==
    IF ~HasToken(text, "(") \/ ~HasToken(text, ")") THEN <<>>
    ELSE LET open == IndexOf(text, "(")
             close == IndexOf(text, ")")
         IN <<Count(SubSeq(text, open + 1, close - 1), "?")>>
            \o GroupSizes(SubSeq(text, close + 1, Len(text)))

\* the value list of an INSERT statement: what follows "values"
ValueList(text) == SubSeq(text, IndexOf(text, "values") + 1, Len(text))

\* C12: for strategy None with c columns and r rows of c values,
\* batchInsertSimple executes exactly one statement, an INSERT whose value
\* list is r groups of c placeholders separated by single commas, and binds
\* r*c arguments, argument i*c+j (0-based) being rows[i][j].
C12_RowMajorArguments ==
    (IsCall("BatchInsert", "mssql") /\ CallStrategy(op) = DuplicateStrategyNone)
    => LET c == Len(CallColumns(op))
           r == Len(CallValues(op))
           text == stmts[1].text
           args == stmts[1].args
       IN /\ Len(stmts) = 1
          /\ Count(text, "insert into") = 1
          /\ GroupSizes(ValueList(text)) = [i \in 1..r |-> c]
          /\ Count(ValueList(text), "?") = r * c
          /\ Count(ValueList(text), ",") = r * (c - 1) + (r - 1)
          /\ Len(ValueList(text)) = r * (2 * c + 1) + (r - 1)
          /\ Len(args) = r * c
          /\ \A i \in 0..(r - 1), j \in 0..(c - 1) :
                args[i * c + j + 1] = CallValues(op)[i + 1][j + 1]

\* two rows of two values were inserted under strategy None
C12_Witness ==
    /\ IsCall("BatchInsert", "mssql") /\ CallStrategy(op) = DuplicateStrategyNone
    /\ Len(CallColumns(op)) = 2 /\ Len(CallValues(op)) = 2
    /\ Len(stmts) = 1 /\ stmts[1].ok
    /\ stmts[1].args = <<11, 12, 21, 22>>

\* the tokens after the first `from` and before the next `to`
Segment(text, from, to) ==
    LET start == IndexOf(text, from)
        rest == SubSeq(text, start + 1, Len(text))
        stop == IF HasToken(rest, to) THEN IndexOf(rest, to) ELSE Len(rest) + 1
    IN SubSeq(rest, 1, stop - 1)

\* a parenthesised list without its parentheses
Inner(text) == SubSeq(text, 2, Len(text) - 1)

\* the items of a comma-separated list; the empty text has none
Items(text) == IF text = <<>> THEN <<>> ELSE Split(text, ",")

\* the caller's column c names an identity column of the table, bare or bracketed
IsIdentityColumn(c) ==
    \E i \in 1..Len(columns) :
        columns[i].IsIdentity /\ c \in {ColNameSeq[i], QuotedNameSeq[i]}

\* C13: the merge statement built for strategy Update on a table with a
\* primary key updates, for matched rows, exactly the caller's columns that
\* are not identity columns and inserts, for unmatched rows, every caller
\* column; the insert column list, the insert value list and the SELECT of
\* every row name the columns in the caller's order, one placeholder each,
\* and the arguments are the rows flattened row by row, so that the k-th
\* placeholder of row i is bound to rows[i][k].
C13_MergeColumns ==
    (/\ IsCall("BatchInsert", "mssql") /\ CallStrategy(op) = DuplicateStrategyUpdate
     /\ PkNames(columns) # <<>> /\ queries[1].ok)
    => LET cc == CallColumns(op)
           vv == CallValues(op)
           c == Len(cc)
           text == stmts[1].text
           args == stmts[1].args
           selects == Split(Inner(Segment(text, "USING", "T2")), "UNION ALL")
           insertCols == Items(Inner(Segment(text, "WHEN NOT MATCHED THEN INSERT", "VALUES")))
           insertVals == Items(Inner(Segment(text, "VALUES", "WHEN MATCHED THEN UPDATE SET")))
           upds == Items(Segment(text, "WHEN MATCHED THEN UPDATE SET", ";"))
           updated == SelectSeq(cc, LAMBDA x : ~IsIdentityColumn(x))
       IN /\ Len(stmts) = 1 /\ Count(text, "MERGE INTO") = 1
          /\ insertCols = [k \in 1..c |-> <<cc[k]>>]
          /\ insertVals = [k \in 1..c |-> <<"T2", ".", cc[k]>>]
          /\ upds = [k \in 1..Len(updated) |->
                        <<"T1", ".", updated[k], "=", "T2", ".", updated[k]>>]
          /\ Len(selects) = Len(vv)
          /\ \A i \in 1..Len(selects) :
                /\ selects[i][1] = "select"
                /\ Items(Tail(selects[i])) = [k \in 1..c |-> <<"?", cc[k]>>]
          /\ Len(args) = Len(vv) * c
          /\ \A i \in 1..Len(vv), k \in 1..c : args[(i - 1) * c + k] = vv[i][k]

\* a merge of two rows into a table with an identity column and another
\* column, the caller naming the columns in brackets
C13_Witness ==
    /\ IsCall("BatchInsert", "mssql") /\ CallStrategy(op) = DuplicateStrategyUpdate
    /\ PkNames(columns) # <<>> /\ queries[1].ok
    /\ HasToken(stmts[1].text, "MERGE INTO") /\ stmts[1].ok
    /\ Len(CallValues(op)) = 2 /\ Len(CallColumns(op)) = 2
    /\ \E k \in 1..2 : IsIdentityColumn(CallColumns(op)[k])
                       /\ CallColumns(op)[k] = QuotedNameSeq[k]
    /\ \E k \in 1..2 : ~IsIdentityColumn(CallColumns(op)[k])

\* C14: every common type that the MySQL native-to-common map produces has
\* an entry in the common-to-native map, and native -> common -> native
\* applied twice gives the native type that applying it once gives.
C14_TypeMapsTotalIdempotent ==
    IsCall("TypeMap", "mysql")
    => /\ ret[1] \in DOMAIN mysqlColumnTypeMap
       /\ ret[1] = commonColumnTypeMap[CallValues(op)[1]]
       /\ ret[2] # ""
       /\ ret[3] = ret[2]

\* a native type that the round trip changes: mediumblob comes back as blob
C14_Witness ==
    /\ IsCall("TypeMap", "mysql")
    /\ CallValues(op)[1] = "mediumblob" /\ ret[2] = "blob" /\ ret[3] = "blob"

\* C15 (as claimed): a type string that contains "date" and "time", in any
\* case, and matches no number pattern, is of kind DateTime in both dialects.
C15_DateAndTimeIsDateTime ==
    (/\ CallName(op) = "GetDataType"
     /\ Contains(ToLower(CallValues(op)[1]), <<"d", "a", "t", "e">>)
     /\ Contains(ToLower(CallValues(op)[1]), <<"t", "i", "m", "e">>)
     /\ \A a \in numberRegexp : ~Contains(ToLower(CallValues(op)[1]), a))
    => ret = <<DataTypeDateTime>>

\* what does hold: a type string that contains "datetime" or "timestamp" and
\* matches no number pattern is of kind DateTime
C15_DatetimeWordIsDateTime ==
    (/\ CallName(op) = "GetDataType"
     /\ \E w \in datetimeRegexp : Contains(ToLower(CallValues(op)[1]), w)
     /\ \A a \in numberRegexp : ~Contains(ToLower(CallValues(op)[1]), a))
    => ret = <<DataTypeDateTime>>

\* the layout ParseData uses for a kind
LayoutFor(dialect, dataType) ==
    IF dataType = DataTypeDate THEN DateOnly
    ELSE IF dataType = DataTypeTime THEN TimeOnly
    ELSE IF dialect = "mssql" THEN RFC3339 ELSE DateTime

\* the token that is written for a number
TokOf(n, digits) == CHOOSE tok \in digits : NumOf(tok) = n

\* a time written under a layout
FormatTime(layout, t) ==
    [i \in 1..Len(layout) |->
        CASE layout[i] = "2006" -> TokOf(t[2], FourDigit)
          [] layout[i] = "01" -> TokOf(t[3], TwoDigit)
          [] layout[i] = "02" -> TokOf(t[4], TwoDigit)
          [] layout[i] = "15" -> TokOf(t[5], TwoDigit)
          [] layout[i] = "04" -> TokOf(t[6], TwoDigit)
          [] layout[i] = "05" -> TokOf(t[7], TwoDigit)
          [] layout[i] = "Z07:00" -> "Z"
          [] OTHER -> layout[i]]

\* the times of the calendar that the digit tokens can write under a layout;
\* a field the layout leaves out is 0, or 1 for the month and the day
TimesOf(layout) ==
    LET hasDate == HasToken(layout, "2006")
        hasTime == HasToken(layout, "15")
        all == {<<"time", y, mo, d, h, mi, s>> :
                   y \in (IF hasDate THEN {2024} ELSE {0}),
                   mo \in (IF hasDate THEN {1, 2} ELSE {1}),
                   d \in (IF hasDate THEN {1, 2, 13, 30} ELSE {1}),
                   h \in (IF hasTime THEN {1, 2, 13} ELSE {0}),
                   mi \in (IF hasTime THEN {1, 2, 13, 30} ELSE {0}),
                   s \in (IF hasTime THEN {1, 2, 13, 30} ELSE {0})}
    IN {t \in all : ~(t[3] = 2 /\ t[4] = 30)}

\* C17: ParseData of both dialects never raises; a value that is not text, or
\* a kind other than DateTime, Date and Time, comes back unchanged; a text of
\* kind DateTime, Date or Time comes back as the time it writes under the
\* layout of the kind, and as the zero time when it writes none.
C17_ParseData ==
    CallName(op) = "ParseData"
    => LET v == CallValues(op)[1]
           dataType == CallValues(op)[2]
           layout == LayoutFor(CallDialect(op), dataType)
       IN /\ err = NoErr
          /\ IF v[1] # "string"
                \/ dataType \notin {DataTypeDateTime, DataTypeDate, DataTypeTime}
             THEN ret = v
             ELSE IF \E t \in TimesOf(layout) : FormatTime(layout, t) = v[2]
             THEN ret \in TimesOf(layout) /\ FormatTime(layout, ret) = v[2]
             ELSE ret = ZeroTime

\* the text "not-a-date" parsed as a Date gives the zero time
C17_Witness ==
    /\ CallName(op) = "ParseData"
    /\ CallValues(op) = <<<<"string", <<"not-a-date">>>>, DataTypeDate>>
    /\ ret = ZeroTime /\ err = NoErr

\* a date and time of day under the layout of each dialect
C17_WitnessParsed ==
    /\ CallName(op) = "ParseData" /\ CallValues(op)[2] = DataTypeDateTime
    /\ ret = <<"time", 2024, 2, 13, 13, 30, 1>>
    /\ CallValues(op)[1][1] = "string"
    /\ HasToken(CallValues(op)[1][2], IF CallDialect(op) = "mssql" THEN "T" ELSE " ")

\* the names of the schema, the table and its columns, as the database has them
Identifiers == {Schema, TableName} \cup {ColNameSeq[i] : i \in 1..Len(ColNameSeq)}

\* every identifier of the text stands between the brackets of QuoteIdentifier
AllQuoted(text) ==
    \A i \in 1..Len(text) :
        text[i] \in Identifiers
        => i > 1 /\ i < Len(text) /\ text[i - 1] = "[" /\ text[i + 1] = "]"

\* C16 (as claimed): in every statement that BatchInsert and WalkTableRecord
\* hand to the database, every schema, table and column identifier is
\* quoted; none is written into the SQL text bare.
C16_IdentifiersQuoted ==
    (CallName(op) \in {"BatchInsert", "WalkTableRecord"})
    => \A k \in 1..Len(stmts) : AllQuoted(stmts[k].text)

\* the MERGE INTO, insert into and SET IDENTITY_INSERT clauses do name the
\* target table quoted
C16_TargetTableQuoted ==
    IsCall("BatchInsert", "mssql")
    => \A k \in 1..Len(stmts) :
          \A i \in 1..Len(stmts[k].text) :
              stmts[k].text[i] \in {"insert into", "MERGE INTO", "SET IDENTITY_INSERT"}
              => SubSeq(stmts[k].text, i + 1, i + 7)
                 = <<"[", Schema, "]", ".", "[", TableName, "]">>

\* the parenthesised body of the CREATE TABLE statement of a DDL text: from
\* the first "(" to the ")" that ends the column list
CreateBody(text) ==
    LET open == IndexOf(text, "(")
        close == CHOOSE i \in (open + 1)..(Len(text) - 1) :
                     /\ text[i] = ")"
                     /\ text[i + 1] \in {";", "ENGINE=InnoDB DEFAULT CHARSET=utf8mb4"}
                     /\ \A k \in (open + 1)..(i - 1) :
                           ~(text[k] = ")" /\ text[k + 1] \in
                                {";", "ENGINE=InnoDB DEFAULT CHARSET=utf8mb4"})
    IN SubSeq(text, open + 1, close - 1)

\* the positions of the body outside every inner parenthesis
TopLevel(body) ==
    {i \in 1..Len(body) :
        Count(SubSeq(body, 1, i - 1), "(") = Count(SubSeq(body, 1, i - 1), ")")}

\* where the elements of the body are: the name of each column definition
\* and the keyword of the primary-key constraint
ElementsAt(body) ==
    {i \in TopLevel(body) :
        body[i] \in {columns[k].ColumnName : k \in 1..Len(columns)}
                    \cup {"CONSTRAINT", "PRIMARY KEY"}}

CommasBetween(body, from, to) ==
    Cardinality({i \in TopLevel(body) : from < i /\ i < to /\ body[i] = ","})

\* one comma between every two consecutive elements, none after the last
CommasSeparate(body) ==
    LET at == ElementsAt(body) IN
    /\ Cardinality(at) = Len(columns) + (IF PkNames(columns) # <<>> THEN 1 ELSE 0)
    /\ \A p \in at, q \in at :
          (p < q /\ \A x \in at : ~(p < x /\ x < q)) => CommasBetween(body, p, q) = 1
    /\ \A p \in at :
          (\A x \in at : x <= p) => CommasBetween(body, p, Len(body) + 1) = 0

\* C18 (as claimed): in the CREATE TABLE statement of CopyTableDDL and of
\* GenerateTableDDL, for a table with at least one column, with or without
\* a primary key, every two consecutive elements of the body are separated
\* by exactly one comma and no comma follows the last element.
C18_BodyCommas ==
    (IsDDLCall /\ err = NoErr /\ Len(columns) >= 1)
    => CommasSeparate(CreateBody(ret))

\* what does hold: the body of MySQL's GenerateTableDDL, and the body of
\* CopyTableDDL for a table without a primary key
C18_BodyCommasWithoutConstraint ==
    (/\ IsDDLCall /\ err = NoErr /\ Len(columns) >= 1
     /\ (CallDialect(op) = "mysql" \/ PkNames(columns) = <<>>))
    => CommasSeparate(CreateBody(ret))

====
